---- MODULE Spec2Model ----
(***************************************************************************)
(* State-machine model of dataprocessor/bpmcalc.py (class BPMCalc).        *)
(*                                                                         *)
(* State: the two sample buffers (self.time, self.data) and the stored     *)
(* best fit (self.fit).  One action per public method: reset, send_data,   *)
(* calculate_bpm, set_frequency.  The numeric collaborators (curve_fit,    *)
(* the smoother, derivative, clean_data) are outside the class; what they  *)
(* return is an input of calculate_bpm, drawn from small sets.             *)
(*                                                                         *)
(* Angular frequencies are integers in units of pi/30 rad/s, so that       *)
(* 2*pi is the integer 60 and every conversion between Hz, rad/s and BPM   *)
(* is exact integer arithmetic.                                            *)
(***************************************************************************)
EXTENDS Integers, Sequences, FiniteSets, TLC

(***************************************************************************)
(* Bounds of the model.                                                    *)
(***************************************************************************)
\* samples stored (not dropped as duplicates) between two resets
MaxAppends == 4
\* longest buffer handed to optimum_fit when it is checked on its own
MaxFitLen == 4

\* timestamps and coordinates offered to send_data
Times == {1, 2}
Coords == {0, 1}
\* variances of the frequency parameter that curve_fit reports
ErrVals == {1, 2}
\* frequencies (Hz) offered to set_frequency; the sign is the caller's
Freqs == {-1, 2}

(***************************************************************************)
(* Program constants.  The source's values (10, 5000, 50, 10) are scaled   *)
(* down, keeping minimum_points < ChunkLength <= maximum_points so that    *)
(* the gate, the single-chunk plan, the multi-chunk plan and the cap all   *)
(* occur.                                                                  *)
(***************************************************************************)
\* self.minimum_points = 10
minimum_points == 2
\* self.maximum_points = 5000
maximum_points == 3
\* chunk_length=50, and the threshold len(data) < 50
ChunkLength == 3
\* generate_samples(time, data, 10)
NumChunks == 2
\* 2 * np.pi, in units of pi/30
TwoPi == 60

VARIABLES
    time,         \* self.time
    data,         \* self.data
    fit,          \* self.fit
    call,         \* the most recent call and its arguments
    result,       \* what that call returned or raised
    p0,           \* optimum_fit's initial guess in that call (None: no fit run)
    new_fit,      \* what optimum_fit returned in that call
    appended,     \* every <<time, coord>> stored since construction or reset
    override,     \* the frequency of the set_frequency still in force, or None
    discarded     \* TRUE once a reset has discarded a best fit

vars == <<time, data, fit, call, result, p0, new_fit, appended, override, discarded>>

(***************************************************************************)
(* Values.                                                                 *)
(***************************************************************************)
\* Python's None
None == [tag |-> "None"]

\* Fit = namedtuple('Fit', ['params', 'error', 'time', 'data'])
Fit(params, error, t, d) ==
    [tag |-> "Fit", params |-> params, error |-> error, time |-> t, data |-> d]

Return(v) == [tag |-> "return", val |-> v]
Raise(e) == [tag |-> "raise", exc |-> e]

Abs(x) == IF x < 0 THEN -x ELSE x

\* bpm_from_ang_freq without np.abs
bpm_signed(angular_frequency) ==
    (angular_frequency * 60) \div TwoPi

\* freq = np.abs(angular_frequency) / (2 * np.pi); return freq * 60
\* (the product is taken first so that the integer division is exact)
bpm_from_ang_freq(angular_frequency) ==
    (Abs(angular_frequency) * 60) \div TwoPi

\* p0 = [50, 2 * np.pi * 116 / 60, 1, 0]
DefaultGuess == <<50, (TwoPi * 116) \div 60, 1, 0>>

(***************************************************************************)
(* curve_fit.  One outcome stands for the two calls find_fit makes on a    *)
(* chunk: RuntimeError if either does not converge, else the two parameter *)
(* vectors and the two variances of the frequency parameter                *)
(* (np.diag(pcov[i])[1]); index 1 is the bop-axis signal, 2 the y signal.  *)
(***************************************************************************)
NotConverged == [tag |-> "RuntimeError"]

\* the parameters fitted to the bop-axis signal and to the y signal
PoptPairs == {<<<<50, -116, 1, 0>>, <<40, 100, 2, 3>>>>}

CurveFitOutcomes ==
    {NotConverged} \cup
    {[tag |-> "ok", popt |-> pp, pcov |-> <<e0, e1>>] :
        pp \in PoptPairs, e0 \in ErrVals, e1 \in ErrVals}

\* velocity_data = (self.bop_vector_velocity(*sample),
\*                  clean_data(derivative(*sample)[:, 1]))
\* the two derived series are named, their contents are not modelled
velocity_data(sample) == <<"bop_vector_velocity", "y_velocity">>

\* BPMCalc.find_fit
find_fit(sample, guess, cf) ==
    IF cf.tag = "RuntimeError"
    THEN None
    ELSE LET min_index == IF cf.pcov[2] - cf.pcov[1] > 0 THEN 1 ELSE 2
         IN  Fit(cf.popt[min_index], cf.pcov[min_index], sample[1],
                 velocity_data(sample)[min_index])

\* BPMCalc.generate_samples: chunk k starts at the random index starts[k]
generate_samples(t, d, starts, chunk_length) ==
    [k \in 1..Len(starts) |->
        <<SubSeq(t, starts[k] + 1, starts[k] + chunk_length),
          SubSeq(d, starts[k] + 1, starts[k] + chunk_length)>>]

\* the sampling plan of optimum_fit: one chunk of the whole buffer below
\* ChunkLength points, NumChunks chunks of ChunkLength points otherwise
num_chunks(d) == IF Len(d) < ChunkLength THEN 1 ELSE NumChunks
chunk_length(d) == IF Len(d) < ChunkLength THEN Len(d) ELSE ChunkLength

\* random.randint(0, len(data) - chunk_length)
StartIndices(d) == 0..(Len(d) - chunk_length(d))

\* takes_sample with the comparison of the errors turned round
takes_worse(optimum_sample, sample_fit) ==
    \/ optimum_sample = None
    \/ /\ sample_fit # None
       /\ sample_fit.error > optimum_sample.error

\* if not optimum_sample or (sample_fit and sample_fit.error < optimum_sample.error)
takes_sample(optimum_sample, sample_fit) ==
    \/ optimum_sample = None
    \/ /\ sample_fit # None
       /\ sample_fit.error < optimum_sample.error

\* the loop of optimum_fit over the chunks' fits
RECURSIVE best_of(_, _)
best_of(fits, optimum_sample) ==
    IF fits = <<>>
    THEN optimum_sample
    ELSE best_of(Tail(fits),
                 IF takes_sample(optimum_sample, Head(fits))
                 THEN Head(fits)
                 ELSE optimum_sample)

\* p0 = [...] if self.fit is None else self.fit[0]
initial_guess(f) == IF f = None THEN DefaultGuess ELSE f.params

\* sample_fit = self.find_fit(sample, p0), for each chunk in order
sample_fits(t, d, f, starts, cfs) ==
    LET samples == generate_samples(t, d, starts, chunk_length(d))
    IN  [k \in 1..Len(starts) |-> find_fit(samples[k], initial_guess(f), cfs[k])]

\* BPMCalc.optimum_fit
optimum_fit(t, d, f, starts, cfs) ==
    [p0 |-> initial_guess(f),
     ret |-> best_of(sample_fits(t, d, f, starts, cfs), None)]

\* below_minimum with the gate one sample too low
below_minimum_less_one(t) == Len(t) < minimum_points - 1

\* if len(self.time) < self.minimum_points
below_minimum(t) == Len(t) < minimum_points

\* newest keeping the first maximum_points entries: seq[:self.maximum_points]
oldest(seq) == SubSeq(seq, 1, maximum_points)

\* seq[-self.maximum_points:]
newest(seq) == SubSeq(seq, Len(seq) - maximum_points + 1, Len(seq))

\* if len(self.time) > self.maximum_points: truncate both buffers
capped(t, seq) == IF Len(t) > maximum_points THEN newest(seq) ELSE seq

\* improves accepting a candidate of equal error
improves_or_ties(candidate, f) == candidate.error <= f.error

\* new_fit.error < self.fit.error
improves(candidate, f) == candidate.error < f.error

\* BPMCalc.calculate_bpm; the attribute accesses on None raise
calculate_bpm(t, d, f, starts, cfs) ==
    IF below_minimum(t)
    THEN [time |-> t, data |-> d, fit |-> f, result |-> Return(None),
          p0 |-> None, new_fit |-> None]
    ELSE LET t2 == capped(t, t)
             d2 == capped(t, d)
             o == optimum_fit(t2, d2, f, starts, cfs)
             base == [time |-> t2, data |-> d2, fit |-> f, result |-> Return(None),
                      p0 |-> o.p0, new_fit |-> o.ret]
         IN  IF f = None
             THEN IF o.ret = None
                  \* self.fit = None; self.fit[0] raises TypeError
                  THEN [base EXCEPT !.result = Raise("TypeError")]
                  ELSE [base EXCEPT !.fit = o.ret,
                            !.result = Return(bpm_from_ang_freq(o.ret.params[2]))]
             ELSE IF o.ret = None
                  \* new_fit.error raises AttributeError
                  THEN [base EXCEPT !.result = Raise("AttributeError")]
                  ELSE LET kept == IF improves(o.ret, f) THEN o.ret ELSE f
                       IN  [base EXCEPT !.fit = kept,
                                !.result = Return(bpm_from_ang_freq(kept.params[2]))]

\* stores without the duplicate-timestamp filter
stores_always(t, tm) == TRUE

\* if len(self.time) == 0 or self.time[-1] != time
stores(t, tm) == Len(t) = 0 \/ t[Len(t)] # tm

\* BPMCalc.send_data
send_data(t, d, tm, coord) ==
    IF stores(t, tm)
    THEN [time |-> Append(t, tm), data |-> Append(d, coord)]
    ELSE [time |-> t, data |-> d]

\* set_frequency storing the frequency in Hz, without the factor 2*pi
set_frequency_hz(f, frequency) ==
    IF f = None
    THEN [fit |-> f, result |-> Raise("TypeError")]
    ELSE [fit |-> [f EXCEPT !.params[2] = frequency],
          result |-> Return(None)]

\* BPMCalc.set_frequency: self.fit[0][1] = 2 * np.pi * frequency
set_frequency(f, frequency) ==
    IF f = None
    THEN [fit |-> f, result |-> Raise("TypeError")]
    ELSE [fit |-> [f EXCEPT !.params[2] = TwoPi * frequency],
          result |-> Return(None)]

\* reset that clears the buffers and keeps the best fit
reset_keeps_fit == [time |-> <<>>, data |-> <<>>, fit |-> fit]

\* BPMCalc.reset
reset_state == [time |-> <<>>, data |-> <<>>, fit |-> None]

(***************************************************************************)
(* The state machine.                                                      *)
(***************************************************************************)
\* BPMCalc.__init__
Init ==
    /\ time = <<>>
    /\ data = <<>>
    /\ fit = None
    /\ call = [op |-> "__init__"]
    /\ result = Return(None)
    /\ p0 = None
    /\ new_fit = None
    /\ appended = <<>>
    /\ override = None
    /\ discarded = FALSE

NoFitRun ==
    /\ p0' = None
    /\ new_fit' = None

Reset ==
    /\ time' = reset_state.time
    /\ data' = reset_state.data
    /\ fit' = reset_state.fit
    /\ call' = [op |-> "reset"]
    /\ result' = Return(None)
    /\ NoFitRun
    /\ appended' = <<>>
    /\ override' = None
    /\ discarded' = (discarded \/ fit # None)

SendData ==
    \E tm \in Times, coord \in Coords :
        LET r == send_data(time, data, tm, coord)
        IN  /\ stores(time, tm) => Len(appended) < MaxAppends
            /\ time' = r.time
            /\ data' = r.data
            /\ call' = [op |-> "send_data", time |-> tm, coord |-> coord]
            /\ result' = Return(None)
            /\ NoFitRun
            /\ appended' = IF stores(time, tm)
                           THEN Append(appended, <<tm, coord>>)
                           ELSE appended
            /\ UNCHANGED <<fit, override, discarded>>

CalculateBpm ==
    LET d2 == capped(time, data)
        n == IF below_minimum(time) THEN 0 ELSE num_chunks(d2)
    IN  \E starts \in [1..n -> StartIndices(d2)],
           cfs \in [1..n -> CurveFitOutcomes] :
            LET r == calculate_bpm(time, data, fit, starts, cfs)
            IN  /\ time' = r.time
                /\ data' = r.data
                /\ fit' = r.fit
                /\ call' = [op |-> "calculate_bpm"]
                /\ result' = r.result
                /\ p0' = r.p0
                /\ new_fit' = r.new_fit
                /\ override' = IF r.fit = fit THEN override ELSE None
                /\ UNCHANGED <<appended, discarded>>

SetFrequency ==
    \E frequency \in Freqs :
        LET r == set_frequency(fit, frequency)
        IN  /\ fit' = r.fit
            /\ call' = [op |-> "set_frequency", frequency |-> frequency]
            /\ result' = r.result
            /\ NoFitRun
            /\ override' = IF r.result.tag = "return"
                           THEN [tag |-> "Hz", frequency |-> frequency]
                           ELSE override
            /\ UNCHANGED <<time, data, appended, discarded>>

Next ==
    \/ Reset
    \/ SendData
    \/ CalculateBpm
    \/ SetFrequency

Spec == Init /\ [][Next]_vars

(***************************************************************************)
(* optimum_fit on its own: the buffers, the stored fit and the outcome of  *)
(* every chunk are inputs; the one action applies optimum_fit to them.     *)
(***************************************************************************)
\* buffers send_data can have built: no two consecutive equal timestamps
FitBuffers ==
    UNION {{b \in [1..n -> Times \X Coords] :
               \A i \in 1..(n - 1) : b[i][1] # b[i + 1][1]} :
           n \in minimum_points..MaxFitLen}

StoredFits == {None, Fit(<<40, -120, 2, 3>>, 1, <<1, 2>>, "y_velocity")}

InitFit ==
    /\ \E b \in FitBuffers :
           /\ time = [i \in DOMAIN b |-> b[i][1]]
           /\ data = [i \in DOMAIN b |-> b[i][2]]
           /\ appended = b
    /\ fit \in StoredFits
    /\ call = [op |-> "__init__"]
    /\ result = Return(None)
    /\ p0 = None
    /\ new_fit = None
    /\ override = IF fit = None THEN None ELSE [tag |-> "Hz", frequency |-> -2]
    /\ discarded = FALSE

OptimumFit ==
    \E starts \in [1..num_chunks(data) -> StartIndices(data)],
       cfs \in [1..num_chunks(data) -> CurveFitOutcomes] :
        LET o == optimum_fit(time, data, fit, starts, cfs)
        IN  /\ call' = [op |-> "optimum_fit", starts |-> starts, cfs |-> cfs]
            /\ result' = Return(o.ret)
            /\ p0' = o.p0
            /\ new_fit' = o.ret
            /\ UNCHANGED <<time, data, fit, appended, override, discarded>>

NextFit == OptimumFit

SpecFit == InitFit /\ [][NextFit]_vars

(***************************************************************************)
(* Properties.                                                             *)
(***************************************************************************)
Min(a, b) == IF a < b THEN a ELSE b

\* the last call was a calculate_bpm that got past the minimum_points gate
FitWasRun == call.op = "calculate_bpm" /\ p0 # None

\* C1: when calculate_bpm runs a fit and every chunk's fit fails, the call
\* raises nothing: it returns the BPM of the stored best fit, or None when
\* there is no stored fit.
C1_AllChunksFailIsNoError ==
    (FitWasRun /\ new_fit = None) =>
        result = IF fit = None
                 THEN Return(None)
                 ELSE Return(bpm_from_ang_freq(fit.params[2]))

\* C2: calculate_bpm replaces the stored fit only by its candidate, and only
\* when there was no stored fit or the candidate's error is strictly lower;
\* a candidate that is not strictly better leaves the stored fit alone; and
\* no send_data, calculate_bpm or set_frequency step raises the stored error.
C2_ReplacedOnlyByStrictlyBetter ==
    [][/\ (call'.op = "calculate_bpm" /\ fit' # fit) =>
              /\ new_fit' # None
              /\ fit' = new_fit'
              /\ (fit = None \/ new_fit'.error < fit.error)
       /\ (call'.op = "calculate_bpm" /\ fit # None /\ new_fit' # None
                /\ new_fit'.error >= fit.error) =>
              fit' = fit
       /\ (call'.op \in {"send_data", "calculate_bpm", "set_frequency"}
                /\ fit # None) =>
              (fit' # None /\ fit'.error <= fit.error)]_vars

\* a candidate that ties with the stored fit was turned down
C2_Witness ==
    /\ FitWasRun
    /\ fit # None
    /\ new_fit # None
    /\ new_fit # fit
    /\ new_fit.error = fit.error

\* the entries the buffers hold are the newest ones stored, in order
RetainsNewest ==
    LET k == Len(time)
    IN  /\ Len(data) = k
        /\ k <= Len(appended)
        /\ \A i \in 1..k :
               <<time[i], data[i]>> = appended[Len(appended) - k + i]

\* C3 as claimed: in every reachable state the buffers hold at most
\* maximum_points entries, and those are the newest ones stored, in order.
C3_NeverExceedsMaximum ==
    /\ Len(time) <= maximum_points
    /\ Len(data) <= maximum_points
    /\ RetainsNewest

\* C3 as amended: the buffers always hold the newest entries stored, in
\* order, and never fewer than min(stored, maximum_points) of them; right
\* after a calculate_bpm call they hold at most maximum_points entries.
C3_CappedAtEstimation ==
    /\ RetainsNewest
    /\ Len(time) >= Min(Len(appended), maximum_points)
    /\ call.op = "calculate_bpm" => Len(time) <= maximum_points

\* more than maximum_points samples were stored and calculate_bpm cut them
C3_Witness ==
    /\ call.op = "calculate_bpm"
    /\ Len(appended) > maximum_points
    /\ Len(time) = maximum_points

\* C4: calculate_bpm on fewer than minimum_points samples returns None, runs
\* no fit and changes nothing, whatever the buffers hold.
C4_BelowMinimumUnavailable ==
    [][(call'.op = "calculate_bpm" /\ Len(time) < minimum_points) =>
           /\ result' = Return(None)
           /\ p0' = None
           /\ new_fit' = None
           /\ UNCHANGED <<time, data, fit>>]_vars

\* calculate_bpm answered None on a buffer that is short but not empty
C4_Witness ==
    /\ call.op = "calculate_bpm"
    /\ Len(time) > 0
    /\ Len(time) < minimum_points
    /\ result = Return(None)

\* C5: set_frequency without a best fit fails with the defined
\* precondition error, not with the error of an access to the missing fit.
C5_NoFitIsPreconditionError ==
    (call.op = "set_frequency" /\ fit = None) => result = Raise("NoFitYet")

\* C6: on a stored fit, set_frequency(f) sets the angular frequency to
\* 2*pi*f and changes nothing else of the fit or of the buffers.
C6_SetsOnlyAngularFrequency ==
    [][(call'.op = "set_frequency" /\ fit # None) =>
           /\ result' = Return(None)
           /\ fit' # None
           /\ Len(fit'.params) = 4
           /\ fit'.params[2] = TwoPi * call'.frequency
           /\ \A i \in {1, 3, 4} : fit'.params[i] = fit.params[i]
           /\ fit'.error = fit.error
           /\ fit'.time = fit.time
           /\ fit'.data = fit.data
           /\ UNCHANGED <<time, data>>]_vars

\* set_frequency overrode a fitted frequency
C6_Witness ==
    /\ call.op = "set_frequency"
    /\ result = Return(None)
    /\ fit # None
    /\ fit.params[2] = TwoPi * call.frequency
    /\ fit.params[1] \in {50, 40}

\* C7: reset leaves empty buffers and no best fit; until minimum_points
\* samples are stored again there is no best fit and calculate_bpm returns
\* None without running a fit; the first fit after it starts from the
\* default guess.
C7_ResetIsInitialState ==
    [][/\ call'.op = "reset" =>
              (time' = <<>> /\ data' = <<>> /\ fit' = None)
       /\ Len(appended') < minimum_points => fit' = None
       /\ (call'.op = "calculate_bpm" /\ Len(appended) < minimum_points) =>
              (result' = Return(None) /\ p0' = None)
       /\ (call'.op = "calculate_bpm" /\ fit = None /\ p0' # None) =>
              p0' = DefaultGuess]_vars

\* a best fit was discarded by reset, and calculate_bpm on the one sample
\* stored since answered None
C7_Witness ==
    /\ discarded
    /\ call.op = "calculate_bpm"
    /\ Len(time) = 1
    /\ fit = None
    /\ result = Return(None)

\* C8: send_data(t, c) changes no buffer when t is the last stored
\* timestamp, appends t and c at the same index otherwise; it returns
\* normally and leaves the best fit alone.
C8_SendDataAppendsOrSkips ==
    [][call'.op = "send_data" =>
           /\ IF Len(time) > 0 /\ time[Len(time)] = call'.time
              THEN time' = time /\ data' = data
              ELSE /\ time' = time \o <<call'.time>>
                   /\ data' = data \o <<call'.coord>>
           /\ Len(time') = Len(data')
           /\ fit' = fit
           /\ result' = Return(None)]_vars

\* a sample with the last stored timestamp and another coordinate was dropped
C8_Witness ==
    /\ call.op = "send_data"
    /\ Len(time) > 0
    /\ time[Len(time)] = call.time
    /\ data[Len(data)] # call.coord
    /\ fit # None

\* C9: optimum_fit returns None exactly when every chunk failed to fit;
\* otherwise it returns the fit of a chunk that converged, and no chunk that
\* converged has a lower error.
C9_ReturnsBestConvergedChunk ==
    call.op = "optimum_fit" =>
        LET fits == sample_fits(time, data, fit, call.starts, call.cfs)
            converged == {k \in DOMAIN call.cfs : call.cfs[k] # NotConverged}
        IN  /\ (converged = {}) <=> (new_fit = None)
            /\ converged # {} =>
                   \E k \in converged :
                       /\ new_fit = fits[k]
                       /\ new_fit.tag = "Fit"
                       /\ \A j \in converged : new_fit.error <= fits[j].error

\* a chunk that failed came before one that converged, which was returned
C9_Witness ==
    /\ call.op = "optimum_fit"
    /\ Len(call.cfs) = NumChunks
    /\ call.cfs[1] = NotConverged
    /\ call.cfs[2] # NotConverged
    /\ new_fit # None

\* C10: while an override f is in force the stored angular frequency is
\* 2*pi*f; send_data keeps it in force; a calculate_bpm whose candidate is
\* not strictly better than the stored error keeps the fit and the override
\* and returns 60*|f|; calculate_bpm drops the override only for a strictly
\* better candidate; and the overridden parameters are the initial guess of
\* the fit it runs.
C10_OverridePersists ==
    [][override # None =>
           /\ fit # None
           /\ fit.params[2] = TwoPi * override.frequency
           /\ call'.op = "send_data" => (fit' = fit /\ override' = override)
           /\ (call'.op = "calculate_bpm" /\ p0' # None) =>
                  (p0' = fit.params /\ p0'[2] = TwoPi * override.frequency)
           /\ (call'.op = "calculate_bpm" /\ new_fit' # None
                    /\ new_fit'.error >= fit.error) =>
                  /\ fit' = fit
                  /\ override' = override
                  /\ result' = Return(60 * Abs(override.frequency))
           /\ (call'.op = "calculate_bpm" /\ override' # override) =>
                  /\ new_fit' # None
                  /\ new_fit'.error < fit.error
                  /\ fit' = new_fit']_vars

\* after an override by a negative frequency and further samples, a
\* candidate that ties with the stored error was turned down
C10_Witness ==
    /\ FitWasRun
    /\ override # None
    /\ override.frequency < 0
    /\ new_fit # None
    /\ new_fit.error = fit.error
    /\ fit.time # time
    /\ result = Return(60 * Abs(override.frequency))

====
